---- MODULE Spec2Model ----
(***************************************************************************)
(* A model of archiver_ras.c, the RAS (Max Payne 2) archiver of PhysicsFS: *)
(* the record decoder, the tree+hash index built at archive-open time, the *)
(* archive operations and the bounded read view returned for one file.     *)
(*                                                                         *)
(* Strings are sequences of character codes, pointers are indices into the *)
(* heap of entries (NULL is 0, the root embedded in RASinfo is entry 1).   *)
(***************************************************************************)
EXTENDS Integers, Sequences, FiniteSets, TLC

VARIABLES
    arc,     \* the byte source handed to RAS_openArchive: its content
    pc,      \* where the archive handle is in its life
    info,    \* RASinfo: the heap of RASentry, the hash table, the allocator's books
    load,    \* RAS_openArchive's locals while ras_load_entries runs: files, i
    views,   \* the PHYSFS_Io read views handed out by RAS_openRead/RAS_duplicate
    last,    \* the most recent call: its name, arguments, result and error code
    thr      \* per thread, the call of ras_find_entry it is in: position and locals

vars == <<arc, pc, info, load, views, last, thr>>

----------------------------------------------------------------------------
(* Bounds of the model *)

\* file records per generated archive
MaxFiles == 3
\* read views alive at one time
MaxViews == 2
\* largest length passed to read, largest offset passed to seek
MaxLen == 2
\* most allocations that succeed in one pass of ras_load_entries before one fails
MaxAllocs == 2
\* threads that call into one archive handle without a lock
NumThreads == 2

----------------------------------------------------------------------------
(* Character codes and format constants *)

NUL == 0
SLASH == 47
BSLASH == 92
NULL == 0
ROOT == 1
RAS_SIG == 5456210
RAS_FULLHEADERLEN == 44
DirTrailLen == 16
FileTrailLen == 40

RAS_FILE == "RAS_FILE"
RAS_DIRECTORY == "RAS_DIRECTORY"

Min(a, b) == IF a < b THEN a ELSE b
Max(a, b) == IF a > b THEN a ELSE b

Zeros(n) == [k \in 1..n |-> 0]

\* A PHYSFS_uint32 of 2^31 or more is written as the negative integer that
\* has the same 32 bits: 2^32 - 1 is -1, 2^31 is MinInt32.
MinInt32 == (-2147483647) - 1

\* PHYSFS_swapULE32 of four bytes read into a PHYSFS_uint32
LE32(b) == b[1] + 256 * b[2] + 65536 * b[3] + 16777216 * (b[4] % 128)
           + (IF b[4] >= 128 THEN MinInt32 ELSE 0)

\* a < b for two PHYSFS_uint32
ULess(a, b) == IF (a < 0) = (b < 0) THEN a < b ELSE b < 0

\* a + b stopping at the largest PHYSFS_uint32 instead of wrapping
AddU32_saturating(a, b) ==
    IF (a < 0 /\ b < 0) \/ ((a < 0) # (b < 0) /\ a + b >= 0) THEN -1
    ELSE IF a >= 0 /\ b >= 0 /\ a > 2147483647 - b THEN (a + MinInt32) + (b + MinInt32)
    ELSE a + b

\* a + b in PHYSFS_uint32: the sum modulo 2^32
RECURSIVE AddU32(_, _)
AddU32(a, b) ==
    IF a < 0 /\ b < 0 THEN AddU32(a - MinInt32, b - MinInt32)
    ELSE IF a >= 0 /\ b >= 0 /\ a > 2147483647 - b THEN (a + MinInt32) + (b + MinInt32)
    ELSE a + b

LE32Bytes(x) == << x % 256, (x \div 256) % 256, (x \div 65536) % 256, (x \div 16777216) % 256 >>

\* data[i] of a C buffer: i counts from 0
ByteAt(data, i) == data[i + 1]

----------------------------------------------------------------------------
(* The stream cipher *)

\* RAS_ROL(x, y) of a PHYSFS_uint8 x, cast back to PHYSFS_uint8
RAS_ROL(x, y) == ((x * (2 ^ y)) % 256) + (x \div (2 ^ (8 - y)))

\* a ^ b on the low n bits
RECURSIVE XorBits(_, _, _)
XorBits(a, b, n) ==
    IF n = 0 THEN 0
    ELSE (((a % 2) + (b % 2)) % 2) + 2 * XorBits(a \div 2, b \div 2, n - 1)

\* seed / 177 as C divides: edx >> 7 plus its sign bit, edx being the high word
\* of seed * 0xb92143fb plus seed
SeedQuot(seed) == IF seed >= 0 THEN seed \div 177 ELSE -((-seed) \div 177)

\* seed = (seed * 0xab) - (quotient * 0x763d)
NextSeed(seed) == (seed * 171) - (SeedQuot(seed) * 30269)

\* a ^ b of two PHYSFS_uint8, a nibble at a time
XorTab == [a \in 0..15 |-> [b \in 0..15 |-> XorBits(a, b, 4)]]
Xor8(a, b) == XorTab[a % 16][b % 16] + 16 * XorTab[a \div 16][b \div 16]

\* the values seed takes in the for loop of ras_decrypt: the k-th element is
\* seed after the k-th pass, n passes in all
RECURSIVE SeedsFrom(_, _)
SeedsFrom(seed, n) ==
    IF n <= 0 THEN << >>
    ELSE IF n = 1 THEN <<NextSeed(seed)>>
    ELSE LET h == n \div 2
             left == SeedsFrom(seed, h)
         IN  left \o SeedsFrom(left[h], n - h)

\* one pass of the for loop of ras_decrypt: the byte it leaves in data[pos],
\* seed being the value the pass has just computed
decryptByte(byte, pos, seed) ==
    (Xor8((((pos % 256) + 3) * 6) % 256, RAS_ROL(byte, pos % 5)) + (seed % 256)) % 256

\* the for loop of ras_decrypt started with seed: the content of
\* data[0..length-1] afterwards
decryptFrom(data, length, seed) ==
    LET seeds == SeedsFrom(seed, length)
    IN  << >> \o [k \in 1..length |-> decryptByte(ByteAt(data, k - 1), k - 1, seeds[k])]

\* ras_decrypt without the replacement of a seed of 0 by 1
ras_decrypt_keepsZero(data, length, seed) == decryptFrom(data, length, seed)

\* ras_decrypt: the content of data[0..length-1] afterwards
ras_decrypt(data, length, seed) ==
    decryptFrom(data, length, IF seed = 0 THEN 1 ELSE seed)

----------------------------------------------------------------------------
(* The record decoder *)

\* while (ptr < datalen && data[ptr] != 0) ptr++;
RECURSIVE ScanName(_, _, _)
ScanName(data, datalen, ptr) ==
    IF ptr < datalen /\ ByteAt(data, ptr) # NUL
    THEN ScanName(data, datalen, ptr + 1)
    ELSE ptr

RECURSIVE loadDirsFrom(_, _, _, _, _)
loadDirsFrom(data, datalen, dircount, dirindex, ptr) ==
    IF dirindex >= dircount THEN << >>
    ELSE LET nameend == ScanName(data, datalen, ptr)
             baseptr == IF nameend > ptr /\ ByteAt(data, ptr) = BSLASH
                        THEN ptr + 1 ELSE ptr
             namelen == nameend - baseptr
             name == [k \in 1..namelen |->
                        IF ByteAt(data, baseptr + k - 1) = BSLASH
                        THEN SLASH ELSE ByteAt(data, baseptr + k - 1)]
         IN  << [name |-> name, namelen |-> namelen] >>
             \o loadDirsFrom(data, datalen, dircount, dirindex + 1,
                             nameend + 1 + DirTrailLen)

RAS_loadDirs(data, datalen, dircount) == loadDirsFrom(data, datalen, dircount, 0, 0)

\* What a read outside an allocated buffer may yield when it does not fault.
GarbageU32 == {0, 1}
GarbageDirs == { [name |-> << >>, namelen |-> 0],
                 [name |-> <<103, SLASH>>, namelen |-> 2] }

\* *((PHYSFS_uint32*) (data + p)): the values the read may yield
ReadU32(data, datalen, p) ==
    IF p + 4 <= datalen
    THEN { LE32(<<ByteAt(data, p), ByteAt(data, p + 1), ByteAt(data, p + 2), ByteAt(data, p + 3)>>) }
    ELSE GarbageU32

\* dirs[f->dir]: the record the read may yield
ReadDir(dirs, dircount, d) ==
    IF ULess(d, dircount) THEN { dirs[d + 1] } ELSE GarbageDirs

\* The outcomes of RAS_loadFiles: the decoded files, or a fault on a read
\* outside a buffer (undefined behaviour: either may happen).
RECURSIVE loadFilesFrom(_, _, _, _, _, _, _, _)
loadFilesFrom(data, datalen, filecount, dirs, dircount, fileindex, ptr, offset) ==
    IF fileindex >= filecount THEN { [crash |-> FALSE, files |-> << >>] }
    ELSE LET nameend == ScanName(data, datalen, ptr)
             namelen == nameend - ptr
             name == [k \in 1..namelen |-> ByteAt(data, ptr + k - 1)]
             p == nameend + 1
             outside == p + 16 > datalen
         IN  (IF outside THEN { [crash |-> TRUE, files |-> << >>] } ELSE {})
             \cup UNION { UNION { UNION {
                 (IF ~ULess(d, dircount) THEN { [crash |-> TRUE, files |-> << >>] } ELSE {})
                 \cup UNION {
                   LET f == [name |-> dr.name \o name,
                             namelen |-> dr.namelen + namelen,
                             uncompsize |-> u, size |-> s, dir |-> d,
                             offset |-> offset]
                   IN { IF r.crash THEN r
                        ELSE [crash |-> FALSE, files |-> <<f>> \o r.files] :
                        r \in loadFilesFrom(data, datalen, filecount, dirs, dircount,
                                            fileindex + 1, p + FileTrailLen, AddU32(offset, s)) }
                   : dr \in ReadDir(dirs, dircount, d) }
                 : d \in ReadU32(data, datalen, p + 12) }
                 : s \in ReadU32(data, datalen, p + 4) }
                 : u \in ReadU32(data, datalen, p) }

RAS_loadFiles(data, datalen, filecount, dirs, dircount, offset) ==
    loadFilesFrom(data, datalen, filecount, dirs, dircount, 0, 0, offset)

----------------------------------------------------------------------------
(* The allocator's books and the index *)

\* memset(retval, '\0', sizeof (*retval)) and the fields ras_load_entry sets
NewEntry(name, type, offset, csize, usize) ==
    [name |-> name, type |-> type, offset |-> offset,
     compressed_size |-> csize, uncompressed_size |-> usize,
     hashnext |-> NULL, children |-> NULL, sibling |-> NULL]

\* I.mem is the number of allocations that will still succeed, NoLimit when
\* the allocator never returns NULL
NoLimit == -1

\* whether the next allocator.Malloc returns a block
MallocOk(I) == I.mem # 0

\* allocator.Malloc of one RASentry: the new entry is the heap's last
Malloc(I, e) == [I EXCEPT !.heap = Append(@, e), !.live = @ \cup {Len(I.heap) + 1},
                          !.mem = IF @ > 0 THEN @ - 1 ELSE @]

\* allocator.Free of one RASentry
Free(I, id) == [I EXCEPT !.live = @ \ {id},
                         !.freed = @ \cup {id},
                         !.dbl = @ \/ (id \notin I.live)]

SetErr(I, code) == [I EXCEPT !.err = code]

HashMod == 65536

RECURSIVE HashFrom(_, _, _)
HashFrom(s, k, hash) ==
    IF k > Len(s) THEN hash ELSE HashFrom(s, k + 1, (hash * 33 + s[k]) % HashMod)

\* __PHYSFS_hashString: a deterministic string hash
HashString(s) == HashFrom(s, 1, 5381)

\* the bucket of s, counted from 1
ras_hash_string(I, s) == (HashString(s) % Len(I.hash)) + 1

\* the for loop of ras_find_entry: <<the entry found or NULL, the one before it>>
RECURSIVE FindInChain(_, _, _, _)
FindInChain(heap, cur, prev, path) ==
    IF cur = NULL THEN <<NULL, prev>>
    ELSE IF heap[cur].name = path THEN <<cur, prev>>
    ELSE FindInChain(heap, heap[cur].hashnext, cur, path)

\* ras_find_entry without retval->hashnext = info->hash[hashval]: the entries
\* that stood before the hit drop out of the chain
ras_find_entry_dropsFront(I, path) ==
    IF path = << >> THEN [ret |-> ROOT, I |-> I]
    ELSE LET hashval == ras_hash_string(I, path)
             f == FindInChain(I.heap, I.hash[hashval], NULL, path)
             retval == f[1]
             prev == f[2]
         IN  IF retval = NULL THEN [ret |-> NULL, I |-> SetErr(I, "NOT_FOUND")]
             ELSE IF prev # NULL
             THEN [ret |-> retval,
                   I |-> [I EXCEPT
                            !.heap = [@ EXCEPT ![prev].hashnext = I.heap[retval].hashnext],
                            !.hash = [@ EXCEPT ![hashval] = retval]]]
             ELSE [ret |-> retval, I |-> I]

\* ras_find_entry without the move to the front
ras_find_entry_inPlace(I, path) ==
    IF path = << >> THEN [ret |-> ROOT, I |-> I]
    ELSE LET hashval == ras_hash_string(I, path)
             f == FindInChain(I.heap, I.hash[hashval], NULL, path)
             retval == f[1]
         IN  IF retval = NULL THEN [ret |-> NULL, I |-> SetErr(I, "NOT_FOUND")]
             ELSE [ret |-> retval, I |-> I]

\* Find the RASentry for a path; a hit moves to the front of its chain.
ras_find_entry(I, path) ==
    IF path = << >> THEN [ret |-> ROOT, I |-> I]
    ELSE LET hashval == ras_hash_string(I, path)
             f == FindInChain(I.heap, I.hash[hashval], NULL, path)
             retval == f[1]
             prev == f[2]
         IN  IF retval = NULL THEN [ret |-> NULL, I |-> SetErr(I, "NOT_FOUND")]
             ELSE IF prev # NULL
             THEN [ret |-> retval,
                   I |-> [I EXCEPT
                            !.heap = [@ EXCEPT ![prev].hashnext = I.heap[retval].hashnext,
                                               ![retval].hashnext = I.hash[hashval]],
                            !.hash = [@ EXCEPT ![hashval] = retval]]]
             ELSE [ret |-> retval, I |-> I]

\* strrchr(name, '/'): the index (from 1) of the last separator, 0 when none
RECURSIVE LastSep(_, _)
LastSep(name, k) ==
    IF k = 0 THEN 0 ELSE IF name[k] = SLASH THEN k ELSE LastSep(name, k - 1)

strrchr_sep(name) == LastSep(name, Len(name))

RECURSIVE ras_hash_ancestors(_, _)
RECURSIVE ras_hash_entry(_, _)

\* ras_hash_ancestors taking whatever entry stands at the prefix for the parent
ras_hash_ancestors_anyKind(I, name) ==
    LET sep == strrchr_sep(name)
    IN  IF sep = 0 THEN [ret |-> ROOT, I |-> I]
        ELSE LET prefix == SubSeq(name, 1, sep - 1)
                 f == ras_find_entry(I, prefix)
             IN  IF f.ret # NULL
                 THEN [ret |-> f.ret, I |-> f.I]
                 ELSE IF ~MallocOk(f.I)
                 THEN [ret |-> NULL, I |-> SetErr(f.I, "OUT_OF_MEMORY")]
                 ELSE LET I1 == Malloc(f.I, NewEntry(prefix, RAS_DIRECTORY, 0, 0, 0))
                          retval == Len(I1.heap)
                          h == ras_hash_entry(I1, retval)
                      IN  IF ~h.ok
                          THEN [ret |-> NULL, I |-> Free(h.I, retval)]
                          ELSE [ret |-> retval, I |-> h.I]

\* Fill in missing parent directories: [ret: the parent or NULL, I]
ras_hash_ancestors(I, name) ==
    LET sep == strrchr_sep(name)
    IN  IF sep = 0 THEN [ret |-> ROOT, I |-> I]
        ELSE LET prefix == SubSeq(name, 1, sep - 1)
                 f == ras_find_entry(I, prefix)
             IN  IF f.ret # NULL
                 THEN IF f.I.heap[f.ret].type # RAS_DIRECTORY
                      THEN [ret |-> NULL, I |-> SetErr(f.I, "CORRUPT")]
                      ELSE [ret |-> f.ret, I |-> f.I]
                 ELSE IF ~MallocOk(f.I)
                 THEN [ret |-> NULL, I |-> SetErr(f.I, "OUT_OF_MEMORY")]
                 ELSE LET I1 == Malloc(f.I, NewEntry(prefix, RAS_DIRECTORY, 0, 0, 0))
                          retval == Len(I1.heap)
                          h == ras_hash_entry(I1, retval)
                      IN  IF ~h.ok
                          THEN [ret |-> NULL, I |-> Free(h.I, retval)]
                          ELSE [ret |-> retval, I |-> h.I]

\* ras_hash_entry chaining every entry into the first bucket
ras_hash_entry_firstBucket(I, entry) ==
    LET a == ras_hash_ancestors(I, I.heap[entry].name)
        parent == a.ret
    IN  IF parent = NULL THEN [ok |-> FALSE, I |-> a.I]
        ELSE [ok |-> TRUE,
              I |-> [a.I EXCEPT
                       !.heap = [@ EXCEPT ![entry].hashnext = a.I.hash[1],
                                          ![entry].sibling = a.I.heap[parent].children,
                                          ![parent].children = entry],
                       !.hash = [@ EXCEPT ![1] = entry]]]

\* [ok: the int returned, I]
ras_hash_entry(I, entry) ==
    LET a == ras_hash_ancestors(I, I.heap[entry].name)
        parent == a.ret
    IN  IF parent = NULL THEN [ok |-> FALSE, I |-> a.I]
        ELSE LET hashval == ras_hash_string(a.I, a.I.heap[entry].name)
             IN  [ok |-> TRUE,
                  I |-> [a.I EXCEPT
                           !.heap = [@ EXCEPT ![entry].hashnext = a.I.hash[hashval],
                                              ![entry].sibling = a.I.heap[parent].children,
                                              ![parent].children = entry],
                           !.hash = [@ EXCEPT ![hashval] = entry]]]

\* ras_alloc_hashtable: max(1, entry_count / 5) empty buckets
ras_alloc_hashtable(I, entry_count) ==
    [I EXCEPT !.hash = [k \in 1..Max(1, entry_count \div 5) |-> NULL]]

----------------------------------------------------------------------------
(* The archive as a byte source *)

\* One directory record: NUL-terminated name, 16 bytes skipped
EncDir(rawname) == rawname \o <<NUL>> \o Zeros(DirTrailLen)

\* One file record: NUL-terminated name, then the 40 bytes RAS_loadFiles steps
\* over, holding uncompsize at +0, size at +4 and the directory index at +12
EncFile(f) == f.name \o <<NUL>> \o LE32Bytes(f.uncompsize) \o LE32Bytes(f.size)
              \o Zeros(4) \o LE32Bytes(f.dir) \o Zeros(FileTrailLen - 16)

RECURSIVE Concat(_)
Concat(ss) == IF ss = << >> THEN << >> ELSE Head(ss) \o Concat(Tail(ss))

\* a block without its last cut bytes
CutEnd(block, cut) == SubSeq(block, 1, Max(0, Len(block) - cut))

\* the decrypted files-info and directories-info blocks of archive a: the
\* records the header counts, less the bytes the archive leaves out at the end
FileBlob(a) == CutEnd(Concat([k \in 1..Len(a.files) |-> EncFile(a.files[k])]), a.filecut)
DirBlob(a) == CutEnd(Concat([k \in 1..Len(a.dirs) |-> EncDir(a.dirs[k])]), a.dircut)

\* the RAS_baseinfo archive a was written with
BaseInfo(a) == [filecount |-> Len(a.files), dircount |-> a.dircount,
                fileinfolen |-> Len(FileBlob(a)), dirinfolen |-> Len(DirBlob(a))]

\* its 36 bytes: nine PHYSFS_uint32, the last five unknown
HeaderBytes(a) ==
    LE32Bytes(BaseInfo(a).filecount) \o LE32Bytes(BaseInfo(a).dircount)
    \o LE32Bytes(BaseInfo(a).fileinfolen) \o LE32Bytes(BaseInfo(a).dirinfolen)
    \o Zeros(20)

\* the RAS_baseinfo read from 36 decrypted bytes
ReadBaseInfo(bytes) ==
    [filecount |-> LE32(SubSeq(bytes, 1, 4)), dircount |-> LE32(SubSeq(bytes, 5, 8)),
     fileinfolen |-> LE32(SubSeq(bytes, 9, 12)), dirinfolen |-> LE32(SubSeq(bytes, 13, 16))]

\* What the writer of an archive does to a block so that ras_decrypt gives it
\* back: undo the addition, the xor and the rotation, byte by byte.
encryptByte(byte, pos, seed) ==
    RAS_ROL(Xor8((((pos % 256) + 3) * 6) % 256, (byte - (seed % 256)) % 256),
            (8 - (pos % 5)) % 8)

Encrypt(plain, seed) ==
    LET seeds == SeedsFrom(IF seed = 0 THEN 1 ELSE seed, Len(plain))
    IN  << >> \o [k \in 1..Len(plain) |-> encryptByte(ByteAt(plain, k - 1), k - 1, seeds[k])]

\* the three encrypted blocks of archive a as they lie in the byte source, at
\* offsets 8, 44 and 44 + fileinfolen
EncHeader(a) == Encrypt(HeaderBytes(a), a.seed)
EncFiles(a) == Encrypt(FileBlob(a), a.seed)
EncDirs(a) == Encrypt(DirBlob(a), a.seed)

\* where the payload bytes start
PayloadStart(a) == RAS_FULLHEADERLEN + Len(FileBlob(a)) + Len(DirBlob(a))

\* __PHYSFS_readAll(io, buf, n) at position pos of a byte source of length len
ReadAllOk(pos, n, len) == pos >= 0 /\ n >= 0 /\ n <= len - pos

\* io->read of the underlying byte source: the bytes delivered
IoRead(pos, n, len) == Min(n, Max(0, len - pos))

\* io->seek of the underlying byte source: the results it may give. Inside
\* the source it succeeds; past its end one source refuses and another obliges.
IoSeek(pos, len) == IF pos <= len THEN {TRUE} ELSE {TRUE, FALSE}

----------------------------------------------------------------------------
(* Opening an archive *)

RootEntry == NewEntry(<< >>, RAS_DIRECTORY, 0, 0, 0)

NoInfo == [io |-> "open", iopos |-> 0, alloc |-> FALSE, heap |-> <<RootEntry>>,
           hash |-> << >>, hashAlloc |-> FALSE, live |-> {}, freed |-> {},
           dbl |-> FALSE, err |-> "", bufs |-> {}, mem |-> NoLimit]

NoLoad == [files |-> << >>, i |-> 0, clash |-> FALSE, blocks |-> << >>]

RECURSIVE FreeChain(_, _)
FreeChain(I, entry) ==
    IF entry = NULL THEN I ELSE FreeChain(Free(I, entry), I.heap[entry].hashnext)

RECURSIVE FreeBuckets(_, _)
FreeBuckets(I, i) ==
    IF i > Len(I.hash) THEN I ELSE FreeBuckets(FreeChain(I, I.hash[i]), i + 1)

\* RAS_closeArchive on an allocated RASinfo
RAS_closeArchive(I) ==
    LET I1 == IF I.io = "open" THEN [I EXCEPT !.io = "destroyed"] ELSE I
        I2 == IF I1.hashAlloc THEN [FreeBuckets(I1, 1) EXCEPT !.hashAlloc = FALSE] ELSE I1
    IN  [I2 EXCEPT !.alloc = FALSE]

\* RAS_openArchive up to the call of ras_load_entries: the outcomes, with the
\* three blocks as ras_decrypt left them
RAS_openArchive(a, I, forWriting) ==
    LET res(p, J, fs, bl) == [pc |-> p, info |-> J, files |-> fs, blocks |-> bl]
        at(J, pos, n) == [J EXCEPT !.iopos = IF ReadAllOk(pos, n, a.len) THEN pos + n ELSE a.len]
    IN
    IF forWriting THEN { res("closed", SetErr(I, "READ_ONLY"), << >>, << >>) }
    ELSE IF ~ReadAllOk(0, 4, a.len)
    THEN { res("failed", SetErr(at(I, 0, 4), "ERRPASS"), << >>, << >>) }
    ELSE IF LE32(a.sig) # RAS_SIG
    THEN { res("failed", SetErr(at(I, 0, 4), "UNSUPPORTED"), << >>, << >>) }
    ELSE LET I1 == [I EXCEPT !.alloc = TRUE] IN
    IF ~ReadAllOk(4, 4, a.len)
    THEN { res("failed", SetErr(at(I1, 4, 4), "ERRPASS"), << >>, << >>) }
    ELSE LET seed == a.seed IN
    IF ~ReadAllOk(8, 36, a.len)
    THEN { res("failed", SetErr(at(I1, 8, 36), "ERRPASS"), << >>, << >>) }
    ELSE UNION {
      LET binfo == ReadBaseInfo(header)
          I2 == [I1 EXCEPT !.bufs = @ \cup {"fileinfodata"}]
      IN
      IF ~ReadAllOk(44, binfo.fileinfolen, a.len)
      THEN { res("failed", SetErr(at(I2, 44, binfo.fileinfolen), "ERRPASS"), << >>, << >>) }
      ELSE UNION {
        LET I3 == [I2 EXCEPT !.bufs = @ \cup {"dirinfodata"}]
        IN
        IF ~ReadAllOk(44 + binfo.fileinfolen, binfo.dirinfolen, a.len)
        THEN { res("failed",
                   SetErr(at(I3, 44 + binfo.fileinfolen, binfo.dirinfolen), "ERRPASS"),
                   << >>, << >>) }
        ELSE UNION {
          LET blocks == <<header, fileinfodata, dirinfodata>>
              dirs == RAS_loadDirs(dirinfodata, binfo.dirinfolen, binfo.dircount)
              start == RAS_FULLHEADERLEN + binfo.fileinfolen + binfo.dirinfolen
              I4 == [at(I3, 44 + binfo.fileinfolen, binfo.dirinfolen)
                       EXCEPT !.bufs = {"dirs", "files"}]
          IN  { IF o.crash THEN res("crashed", I4, << >>, blocks)
                ELSE res("loading",
                         ras_alloc_hashtable([I4 EXCEPT !.hashAlloc = TRUE],
                                             binfo.dircount + binfo.filecount),
                         o.files, blocks) :
                o \in RAS_loadFiles(fileinfodata, binfo.fileinfolen, binfo.filecount,
                                    dirs, binfo.dircount, start) }
          : dirinfodata \in { ras_decrypt(EncDirs(a), binfo.dirinfolen, seed) } }
        : fileinfodata \in { ras_decrypt(EncFiles(a), binfo.fileinfolen, seed) } }
      : header \in { ras_decrypt(EncHeader(a), 36, seed) } }

\* ras_load_entry: the entry built for one decoded file, by the name's last
\* character. A name of length 0 reads name[-1]: whatever is there, or a fault.
ras_load_entry(file) ==
    IF file.namelen = 0
    THEN { [crash |-> TRUE, entry |-> RootEntry] }
         \cup { [crash |-> FALSE,
                 entry |-> NewEntry(file.name, t, file.offset, file.size, file.uncompsize)] :
                t \in {RAS_FILE, RAS_DIRECTORY} }
    ELSE IF file.name[file.namelen] = SLASH
    THEN { [crash |-> FALSE,
            entry |-> NewEntry(SubSeq(file.name, 1, file.namelen - 1), RAS_DIRECTORY,
                               file.offset, file.size, file.uncompsize)] }
    ELSE { [crash |-> FALSE,
            entry |-> NewEntry(file.name, RAS_FILE, file.offset, file.size, file.uncompsize)] }

\* One pass of the loop of ras_load_entries: [res, I]. When ras_load_entry
\* returns NULL for want of memory the loop reads entry->name through it.
ras_load_entries_body(I, file) ==
    IF ~MallocOk(I) THEN { [res |-> "crash", I |-> SetErr(I, "OUT_OF_MEMORY")] }
    ELSE
    { IF le.crash THEN [res |-> "crash", I |-> I]
      ELSE LET I1 == Malloc(I, le.entry)
               entry == Len(I1.heap)
               f == ras_find_entry(I1, le.entry.name)
               find == f.ret
           IN  IF find # NULL
               THEN [res |-> "continue",
                     I |-> Free([f.I EXCEPT
                                   !.heap[find].offset = le.entry.offset,
                                   !.heap[find].compressed_size = le.entry.compressed_size,
                                   !.heap[find].uncompressed_size = le.entry.uncompressed_size],
                                entry)]
               ELSE LET h == ras_hash_entry(f.I, entry)
                    IN  IF ~h.ok THEN [res |-> "fail", I |-> Free(h.I, entry)]
                        ELSE [res |-> "continue", I |-> h.I] :
      le \in ras_load_entry(file) }

\* the end of RAS_openArchive once ras_load_entries returned 1
OpenArchiveDone(I) == [I EXCEPT !.bufs = {}]

\* RAS_openarchive_failed: info->io = NULL; RAS_closeArchive(info)
OpenArchiveFailed(I) ==
    [RAS_closeArchive([I EXCEPT !.io = "caller"]) EXCEPT !.io = "open"]

----------------------------------------------------------------------------
(* The archive operations on a built handle *)

\* ptr ? ptr + 1 : entry->name, for ptr = strrchr(entry->name, '/')
Basename(name) == SubSeq(name, strrchr_sep(name) + 1, Len(name))

\* the callbacks of the for loop of RAS_enumerateFiles, from entry on
RECURSIVE Siblings(_, _)
Siblings(heap, entry) ==
    IF entry = NULL THEN << >>
    ELSE <<Basename(heap[entry].name)>> \o Siblings(heap, heap[entry].sibling)

\* [names: what the callback is given, in order, I]
RAS_enumerateFiles(I, dname) ==
    LET f == ras_find_entry(I, dname)
    IN  IF f.ret # NULL /\ f.I.heap[f.ret].type = RAS_DIRECTORY
        THEN [names |-> Siblings(f.I.heap, f.I.heap[f.ret].children), I |-> f.I]
        ELSE [names |-> << >>, I |-> f.I]

NoStat == [filesize |-> -1, filetype |-> "", modtime |-> -1, createtime |-> -1,
           accesstime |-> -1, readonly |-> -1]

\* RAS_stat reporting uncompressed_size, the line the source has commented out
RAS_stat_uncompressed(I, filename) ==
    LET f == ras_find_entry(I, filename)
        st(size, type) == [filesize |-> size, filetype |-> type, modtime |-> 0,
                           createtime |-> 0, accesstime |-> 0, readonly |-> 1]
    IN  IF f.ret = NULL THEN [rc |-> 0, stat |-> NoStat, I |-> f.I]
        ELSE IF f.I.heap[f.ret].type = RAS_DIRECTORY
        THEN [rc |-> 1, stat |-> st(0, "DIRECTORY"), I |-> f.I]
        ELSE [rc |-> 1, stat |-> st(f.I.heap[f.ret].uncompressed_size, "REGULAR"), I |-> f.I]

\* [rc, stat, I]
RAS_stat(I, filename) ==
    LET f == ras_find_entry(I, filename)
        st(size, type) == [filesize |-> size, filetype |-> type, modtime |-> 0,
                           createtime |-> 0, accesstime |-> 0, readonly |-> 1]
    IN  IF f.ret = NULL THEN [rc |-> 0, stat |-> NoStat, I |-> f.I]
        ELSE IF f.I.heap[f.ret].type = RAS_DIRECTORY
        THEN [rc |-> 1, stat |-> st(0, "DIRECTORY"), I |-> f.I]
        ELSE [rc |-> 1, stat |-> st(f.I.heap[f.ret].compressed_size, "REGULAR"), I |-> f.I]

\* A view: the PHYSFS_Io (retval), its RASfileinfo (finfo) and the duplicated
\* byte source (io) as the allocator sees them, and the RASfileinfo's fields.
NoView == [retval |-> FALSE, finfo |-> FALSE, io |-> FALSE,
           entry |-> NULL, curPos |-> 0, iopos |-> 0]

\* the position of a byte source fresh from io->duplicate
IoDuplicate(pos) == 0

\* RAS_openRead_failed: release what was allocated
OpenReadFailed(w) ==
    LET w1 == IF w.finfo THEN [w EXCEPT !.io = FALSE, !.finfo = FALSE] ELSE w
    IN  IF w1.retval THEN [w1 EXCEPT !.retval = FALSE] ELSE w1

\* RAS_openRead duplicating the byte source before it looks at the entry, and
\* returning on a directory without releasing it
RAS_openRead_dupFirst(I, name, len) ==
    LET f == ras_find_entry(I, name)
        entry == f.ret
        w == [NoView EXCEPT !.io = TRUE, !.iopos = IoDuplicate(f.I.iopos)]
    IN  IF entry = NULL
        THEN { [ok |-> FALSE, view |-> OpenReadFailed(NoView), I |-> f.I] }
        ELSE IF f.I.heap[entry].type = RAS_DIRECTORY
        THEN { [ok |-> FALSE, view |-> w, I |-> SetErr(f.I, "NOT_A_FILE")] }
        ELSE { IF ~ok
               THEN [ok |-> FALSE, view |-> NoView, I |-> SetErr(f.I, "ERRPASS")]
               ELSE [ok |-> TRUE,
                     view |-> [w EXCEPT !.retval = TRUE, !.finfo = TRUE,
                                        !.iopos = f.I.heap[entry].offset,
                                        !.curPos = 0, !.entry = entry],
                     I |-> f.I] :
               ok \in IoSeek(f.I.heap[entry].offset, len) }

\* The outcomes [ok, view, I] of RAS_openRead
RAS_openRead(I, name, len) ==
    LET f == ras_find_entry(I, name)
        entry == f.ret
    IN  IF entry = NULL
        THEN { [ok |-> FALSE, view |-> OpenReadFailed(NoView), I |-> f.I] }
        ELSE IF f.I.heap[entry].type = RAS_DIRECTORY
        THEN { [ok |-> FALSE, view |-> OpenReadFailed(NoView), I |-> SetErr(f.I, "NOT_A_FILE")] }
        ELSE LET w == [NoView EXCEPT !.retval = TRUE, !.finfo = TRUE, !.io = TRUE,
                                     !.iopos = IoDuplicate(f.I.iopos)]
             IN  { IF ~ok
                   THEN [ok |-> FALSE, view |-> OpenReadFailed(w), I |-> SetErr(f.I, "ERRPASS")]
                   ELSE [ok |-> TRUE,
                         view |-> [w EXCEPT !.iopos = f.I.heap[entry].offset,
                                            !.curPos = 0, !.entry = entry],
                         I |-> f.I] :
                   ok \in IoSeek(f.I.heap[entry].offset, len) }

RAS_openWrite(I, filename) == [rc |-> NULL, I |-> SetErr(I, "READ_ONLY")]
RAS_openAppend(I, filename) == [rc |-> NULL, I |-> SetErr(I, "READ_ONLY")]
RAS_remove(I, name) == [rc |-> 0, I |-> SetErr(I, "READ_ONLY")]
RAS_mkdir(I, name) == [rc |-> 0, I |-> SetErr(I, "READ_ONLY")]

----------------------------------------------------------------------------
(* The read view *)

\* RAS_read without the clamp to bytesLeft
RAS_read_noClamp(I, w, len, arclen) ==
    LET rc == IoRead(w.iopos, len, arclen)
    IN  [rc |-> rc, err |-> "",
         view |-> IF rc > 0
                  THEN [w EXCEPT !.curPos = @ + rc, !.iopos = @ + rc]
                  ELSE w]

\* [rc, err, view]
RAS_read(I, w, len, arclen) ==
    LET entry == I.heap[w.entry]
        bytesLeft == entry.compressed_size - w.curPos
        n == IF bytesLeft < len THEN bytesLeft ELSE len
        rc == IoRead(w.iopos, n, arclen)
    IN  [rc |-> rc, err |-> "",
         view |-> IF rc > 0
                  THEN [w EXCEPT !.curPos = @ + rc, !.iopos = @ + rc]
                  ELSE w]

\* RAS_write as a write that moves the cursor
RAS_write_moves(I, w, len) == [rc |-> len, err |-> "", view |-> [w EXCEPT !.curPos = @ + len]]

RAS_write(I, w, len) == [rc |-> -1, err |-> "READ_ONLY", view |-> w]

RAS_tell(w) == w.curPos

\* RAS_seek with the bound tested by > instead of >=
RAS_seek_offByOne(I, w, offset, arclen) ==
    LET entry == I.heap[w.entry]
    IN  IF offset > entry.compressed_size
        THEN { [rc |-> 0, err |-> "PAST_EOF", view |-> w] }
        ELSE { IF ok
               THEN [rc |-> 1, err |-> "",
                     view |-> [w EXCEPT !.iopos = entry.offset + offset, !.curPos = offset]]
               ELSE [rc |-> 0, err |-> "ERRPASS", view |-> w] :
               ok \in IoSeek(entry.offset + offset, arclen) }

\* the outcomes [rc, err, view]
RAS_seek(I, w, offset, arclen) ==
    LET entry == I.heap[w.entry]
    IN  IF offset >= entry.compressed_size
        THEN { [rc |-> 0, err |-> "PAST_EOF", view |-> w] }
        ELSE { IF ok
               THEN [rc |-> 1, err |-> "",
                     view |-> [w EXCEPT !.iopos = entry.offset + offset, !.curPos = offset]]
               ELSE [rc |-> 0, err |-> "ERRPASS", view |-> w] :
               ok \in IoSeek(entry.offset + offset, arclen) }

RAS_length(I, w) == I.heap[w.entry].compressed_size

\* the view RAS_duplicate returns for origfinfo
RAS_duplicate(w) ==
    [retval |-> TRUE, finfo |-> TRUE, io |-> TRUE,
     entry |-> w.entry, curPos |-> 0, iopos |-> IoDuplicate(w.iopos)]

RAS_flush(w) == 1

RAS_destroy(w) == [w EXCEPT !.io = FALSE, !.finfo = FALSE, !.retval = FALSE,
                            !.entry = NULL, !.curPos = 0, !.iopos = 0]

----------------------------------------------------------------------------
(* The archives the model opens *)

\* the four bytes RAS_SIG compares equal to, and the bytes of "RAS "
SigCode == <<82, 65, 83, 0>>
SigDoc == <<82, 65, 83, 32>>
Sigs == { SigCode, SigDoc, <<82, 65, 83, 33>>, <<80, 65, 75, 0>> }

\* raw directory names: \a\  \b\  (empty)  \\a\  a\\  a\b\  \data\  a
DirA == <<BSLASH, 97, BSLASH>>
DirB == <<BSLASH, 98, BSLASH>>
DirEmpty == << >>
DirSlashA == <<BSLASH, BSLASH, 97, BSLASH>>
DirADouble == <<97, BSLASH, BSLASH>>
DirAB == <<97, BSLASH, 98, BSLASH>>
DirData == <<BSLASH, 100, 97, 116, 97, BSLASH>>
DirBare == <<97>>

\* raw file names: a  b  (empty)  b/  a/b  item.bin
NameA == <<97>>
NameB == <<98>>
NameEmpty == << >>
NameBSlash == <<98, SLASH>>
NameAB == <<97, SLASH, 98>>
NameItem == <<105, 116, 101, 109, 46, 98, 105, 110>>

\* paths as the index stores them
PathA == <<97>>
PathAA == <<97, SLASH, 97>>
PathAB == <<97, SLASH, 98>>
PathData == <<100, 97, 116, 97>>
PathDataItem == PathData \o <<SLASH>> \o NameItem
PathMissing == <<122>>

FileRec(name, size, dir) == [name |-> name, uncompsize |-> size + 1, size |-> size, dir |-> dir]

RECURSIVE SumSizes(_)
SumSizes(fs) == IF fs = << >> THEN 0 ELSE Head(fs).size + SumSizes(Tail(fs))

Archive(sig, dirs, files, short) ==
    LET a == [sig |-> sig, seed |-> 7, dirs |-> dirs, dircount |-> Len(dirs),
              files |-> files, filecut |-> 0, dircut |-> 0, len |-> 0]
    IN  [a EXCEPT !.len = Max(0, PayloadStart(a) + SumSizes(files) - short)]

SeqsUpTo(S, n) == UNION { [1..k -> S] : k \in 0..n }

\* every sequence of up to MaxFiles records over two names, two sizes and
\* the directory indices 0, 1 and (out of range) 2, for two directory tables
GeneralArchives ==
    { Archive(SigCode, t, fs, 0) :
        t \in { <<DirA, DirEmpty>>, <<DirSlashA, DirADouble>> },
        fs \in SeqsUpTo({ FileRec(n, s, d) : n \in {NameA, NameEmpty}, s \in 1..2, d \in 0..2 },
                        MaxFiles) }

\* one directory record, one file record with parent index 0
SingleArchives ==
    { Archive(SigCode, <<d>>, <<FileRec(n, s, 0)>>, 0) :
        d \in { DirA, DirEmpty, DirSlashA, DirADouble, DirAB, DirData, DirBare },
        n \in { NameA, NameEmpty, NameBSlash, NameAB, NameItem },
        s \in {1, 10} }

\* the archive of the end-to-end scenario under every signature, and cut short
ScenarioArchives ==
    { Archive(sig, <<DirData>>, <<FileRec(NameItem, 10, 0)>>, short) :
        sig \in Sigs, short \in {0, 1, 11, 40, 100, 120, 125} }

\* the whole scenario archive written with other seeds
SeedArchives ==
    { [Archive(SigCode, <<DirData>>, <<FileRec(NameItem, 10, 0)>>, 0) EXCEPT !.seed = sd] :
        sd \in {0, 1, -3, 70000, 12000000} }

Archives == GeneralArchives \cup SingleArchives \cup ScenarioArchives \cup SeedArchives

\* a directory table of eight records: with two file records or more the
\* hash table has two buckets
WideTable == <<DirA, DirB, DirEmpty, DirADouble, DirAB, DirSlashA, DirData, DirBare>>

\* the archives whose index the lookups are run on: every sequence of up to
\* MaxFiles records over two names and two directories for two directory
\* tables, and sequences of two records or more over the wide table
IndexArchives ==
    { Archive(SigCode, t, fs, 0) :
        t \in { <<DirA, DirEmpty>>, <<DirSlashA, DirADouble>> },
        fs \in SeqsUpTo({ FileRec(n, 1, d) : n \in {NameA, NameEmpty}, d \in 0..1 },
                        MaxFiles) }
    \cup
    { Archive(SigCode, WideTable, fs, 0) :
        fs \in { x \in SeqsUpTo({ FileRec(NameA, 1, 0), FileRec(NameB, 1, 0),
                                  FileRec(NameEmpty, 1, 0), FileRec(NameA, 1, 1),
                                  FileRec(NameA, 1, 2), FileRec(NameA, 1, 3) },
                                MaxFiles) : Len(x) >= 2 } }

\* the archives whose built index threads share: a/a alone, a chain of two with
\* its directory, and a/a with a/b, a chain of three
RaceArchives ==
    { Archive(SigCode, <<DirA>>, fs, 0) :
        fs \in { <<FileRec(NameA, 1, 0)>>, <<FileRec(NameA, 1, 0), FileRec(NameB, 1, 0)>> } }

\* declared sizes up to the largest PHYSFS_uint32: 1, 2^31 - 1, 2^31, 2^32 - 1
HugeSizes == {1, 2147483647, MinInt32, -1}

\* every sequence of one to MaxFiles records a/a, a/b and the directory marker
\* a/b/ with those sizes; the payload bytes are not there
HugeArchives ==
    { [Archive(SigCode, <<DirA>>, << >>, 0) EXCEPT
         !.files = fs,
         !.len = RAS_FULLHEADERLEN + Len(Concat([k \in 1..Len(fs) |-> EncFile(fs[k])]))
                 + Len(EncDir(DirA))] :
        fs \in { x \in SeqsUpTo({ [name |-> n, uncompsize |-> z, size |-> z, dir |-> 0] :
                                    n \in {NameA, NameB, NameBSlash}, z \in HugeSizes },
                                MaxFiles) : Len(x) >= 1 } }

\* bytes left out at the end of the files block: none, part of the 40 bytes
\* after a name that are not read, part of those that are, the NUL, the name
\* and a whole record
FileCuts == {0, 1, 24, 25, 40, 41, 42, 43}
\* and at the end of the directories block, whose records end in 16 bytes
\* that are not read
DirCuts == {0, 1, 16, 17, 18, 20, 21}

\* archives whose header counts one or two file records and one or two
\* directory records, with those bytes left out of the blocks
CutArchives ==
    { [Archive(SigCode, t, fs, 0) EXCEPT !.filecut = fc, !.dircut = dc,
                                         !.len = @ - (fc + dc)] :
        t \in { <<DirA>>, <<DirA, DirB>> },
        fs \in { <<FileRec(NameA, 1, 0)>>, <<FileRec(NameA, 1, 0), FileRec(NameB, 1, 0)>>,
                 <<FileRec(NameB, 2, 0), FileRec(NameA, 1, 0)>> },
        fc \in FileCuts, dc \in DirCuts }

\* a/a of 2 bytes and a/b of 1 byte: whole, or with the last payload byte missing
ViewArchives ==
    { Archive(sig, <<DirA>>, <<FileRec(NameA, 2, 0), FileRec(NameB, 1, 0)>>, short) :
        sig \in {SigCode, SigDoc}, short \in {0, 1} }

----------------------------------------------------------------------------
(* The state machine *)

Threads == 1..NumThreads

\* a thread outside ras_find_entry; raced tells whether some step of a call of
\* this thread was taken while another thread was inside a call
NoCall == [at |-> "idle", path |-> << >>, hashval |-> 0, prev |-> NULL, retval |-> NULL,
           raced |-> FALSE]

NoLast == [op |-> "", path |-> << >>, v |-> 0, arg |-> 0, rc |-> 0, err |-> "",
           names |-> << >>, stat |-> NoStat, pos0 |-> 0, io0 |-> 0, seek0 |-> -1]

Last(op, path, v, arg, rc, err) ==
    [NoLast EXCEPT !.op = op, !.path = path, !.v = v, !.arg = arg, !.rc = rc, !.err = err]

\* the handle's state between calls: the error code has been handed to the caller
Settled(I) == [I EXCEPT !.err = "", !.mem = NoLimit]

InitOn(as) ==
    /\ arc \in as
    /\ pc = "closed"
    /\ info = NoInfo
    /\ load = NoLoad
    /\ views = [v \in 1..MaxViews |-> NoView]
    /\ last = NoLast
    /\ thr = [t \in Threads |-> NoCall]

Init == InitOn(ViewArchives)
InitOpen == InitOn(Archives)
InitIndex == InitOn(IndexArchives)

\* RAS_openArchive up to ras_load_entries; with no file record it returns here
OpenArchive ==
    /\ pc = "closed"
    /\ \E forWriting \in BOOLEAN : \E o \in RAS_openArchive(arc, info, forWriting) :
         LET done == o.pc = "loading" /\ o.files = << >>
         IN  /\ pc' = IF done THEN "open" ELSE o.pc
             /\ info' = Settled(IF done THEN OpenArchiveDone(o.info) ELSE o.info)
             /\ load' = [files |-> o.files, i |-> 0, clash |-> FALSE, blocks |-> o.blocks]
             /\ last' = Last("openArchive", << >>, 0, IF forWriting THEN 1 ELSE 0,
                             IF done THEN 1 ELSE IF o.pc = "loading" THEN -1 ELSE 0,
                             o.info.err)
    /\ UNCHANGED <<arc, thr, views>>

\* Whether the record's path is in the hash table with the other kind (kept
\* in load.clash for the properties; the code has no such test).
KindClash(I, file) ==
    \E le \in ras_load_entry(file) :
        /\ ~le.crash
        /\ le.entry.name # << >>
        /\ \E e \in 2..Len(I.heap) :
              /\ e \in I.live
              /\ I.heap[e].name = le.entry.name
              /\ I.heap[e].type # le.entry.type

\* one pass of the loop of ras_load_entries on the handle I, and what follows
\* its last pass
LoadEntriesWith(I) ==
    /\ pc = "loading"
    /\ load.i < Len(load.files)
    /\ \E o \in ras_load_entries_body(I, load.files[load.i + 1]) :
         LET done == load.i + 1 = Len(load.files)
         IN  /\ pc' = CASE o.res = "crash" -> "crashed"
                        [] o.res = "fail" -> "failed"
                        [] OTHER -> IF done THEN "open" ELSE "loading"
             /\ info' = Settled(CASE o.res = "crash" -> o.I
                                  [] o.res = "fail" -> OpenArchiveFailed(o.I)
                                  [] OTHER -> IF done THEN OpenArchiveDone(o.I) ELSE o.I)
             /\ last' = Last("openArchive", << >>, 0, 0,
                             CASE o.res = "crash" -> -1
                               [] o.res = "fail" -> 0
                               [] OTHER -> IF done THEN 1 ELSE -1,
                             IF o.res \in {"fail", "crash"} THEN o.I.err ELSE "")
    /\ load' = [load EXCEPT !.i = @ + 1,
                            !.clash = @ \/ KindClash(I, load.files[load.i + 1]),
                            !.blocks = << >>]
    /\ UNCHANGED <<arc, thr, views>>

\* with an allocator that never fails
LoadEntries == LoadEntriesWith(info)

\* with an allocator that may fail after m allocations of the pass
LoadEntriesMem ==
    \E m \in {NoLimit} \cup 0..MaxAllocs : LoadEntriesWith([info EXCEPT !.mem = m])

\* the entries of the hash table
Hashed(I) == { e \in 2..Len(I.heap) : e \in I.live }

\* the paths the callers ask for: every path of the index, the root, a stranger
QueryPaths == { info.heap[e].name : e \in Hashed(info) } \cup { << >>, PathMissing }

Enumerate ==
    /\ pc = "open"
    /\ \E path \in QueryPaths :
         LET r == RAS_enumerateFiles(info, path)
         IN  /\ info' = Settled(r.I)
             /\ last' = [Last("enumerate", path, 0, 0, 0, r.I.err) EXCEPT !.names = r.names]
    /\ UNCHANGED <<arc, thr, pc, load, views>>

Stat ==
    /\ pc = "open"
    /\ \E path \in QueryPaths :
         LET r == RAS_stat(info, path)
         IN  /\ info' = Settled(r.I)
             /\ last' = [Last("stat", path, 0, 0, r.rc, r.I.err) EXCEPT !.stat = r.stat]
    /\ UNCHANGED <<arc, thr, pc, load, views>>

FreeSlots == { v \in 1..MaxViews : ~views[v].retval }
LiveViews == { v \in 1..MaxViews : views[v].retval }
FirstFree == CHOOSE v \in FreeSlots : \A u \in FreeSlots : v <= u

\* how many PHYSFS_Io, RASfileinfo and duplicated byte sources are allocated
Allocated(vs) ==
    Cardinality({ v \in 1..MaxViews : vs[v].retval })
    + Cardinality({ v \in 1..MaxViews : vs[v].finfo })
    + Cardinality({ v \in 1..MaxViews : vs[v].io })

OpenRead ==
    /\ pc = "open"
    /\ FreeSlots # {}
    /\ \E path \in QueryPaths : \E o \in RAS_openRead(info, path, arc.len) :
         /\ info' = Settled(o.I)
         /\ views' = [views EXCEPT ![FirstFree] = o.view]
         /\ last' = Last("openRead", path, IF o.ok THEN FirstFree ELSE 0, Allocated(views),
                         IF o.ok THEN 1 ELSE 0, o.I.err)
    /\ UNCHANGED <<arc, thr, pc, load>>

ReadOnlyCall(op, r, path) ==
    /\ info' = Settled(r.I)
    /\ last' = Last(op, path, 0, 0, r.rc, r.I.err)
    /\ UNCHANGED <<arc, thr, pc, load, views>>

OpenWrite == pc = "open" /\ \E path \in QueryPaths : ReadOnlyCall("openWrite", RAS_openWrite(info, path), path)
OpenAppend == pc = "open" /\ \E path \in QueryPaths : ReadOnlyCall("openAppend", RAS_openAppend(info, path), path)
Remove == pc = "open" /\ \E path \in QueryPaths : ReadOnlyCall("remove", RAS_remove(info, path), path)
Mkdir == pc = "open" /\ \E path \in QueryPaths : ReadOnlyCall("mkdir", RAS_mkdir(info, path), path)

\* RAS_closeArchive, which the host calls once no view of the archive is open
CloseArchive ==
    /\ pc = "open"
    /\ LiveViews = {}
    /\ pc' = "closed_archive"
    /\ info' = Settled(RAS_closeArchive(info))
    /\ last' = Last("closeArchive", << >>, 0, 0, 0, "")
    /\ UNCHANGED <<arc, thr, load, views>>

\* the offset of the successful seek on view v that was the call before this
\* one, or -1
JustSeeked(v) == IF last.op = "seek" /\ last.v = v /\ last.rc = 1 THEN last.arg ELSE -1

ViewCall(op, v, arg, r) ==
    /\ views' = [views EXCEPT ![v] = r.view]
    /\ last' = [Last(op, << >>, v, arg, r.rc, r.err) EXCEPT
                  !.pos0 = views[v].curPos, !.io0 = views[v].iopos,
                  !.seek0 = JustSeeked(v)]
    /\ UNCHANGED <<arc, thr, pc, info, load>>

\* Read with the cursor kept per entry instead of per RASfileinfo: every view
\* of the entry moves with the one that reads
Read_sharedCursor ==
    \E v \in LiveViews : \E len \in 0..MaxLen :
        LET r == RAS_read(info, views[v], len, arc.len)
        IN  /\ views' = [u \in 1..MaxViews |->
                            IF views[u].retval /\ views[u].entry = views[v].entry
                            THEN [views[u] EXCEPT !.curPos = r.view.curPos,
                                                  !.iopos = r.view.iopos]
                            ELSE views[u]]
            /\ last' = [Last("read", << >>, v, len, r.rc, r.err) EXCEPT
                          !.pos0 = views[v].curPos, !.io0 = views[v].iopos,
                          !.seek0 = JustSeeked(v)]
            /\ UNCHANGED <<arc, thr, pc, info, load>>

Read == \E v \in LiveViews : \E len \in 0..MaxLen :
            ViewCall("read", v, len, RAS_read(info, views[v], len, arc.len))

Write == \E v \in LiveViews : \E len \in 0..MaxLen :
            ViewCall("write", v, len, RAS_write(info, views[v], len))

Seek == \E v \in LiveViews : \E offset \in 0..MaxLen :
            \E r \in RAS_seek(info, views[v], offset, arc.len) : ViewCall("seek", v, offset, r)

Tell == \E v \in LiveViews :
            ViewCall("tell", v, 0, [rc |-> RAS_tell(views[v]), err |-> "", view |-> views[v]])

Length == \E v \in LiveViews :
            ViewCall("length", v, 0, [rc |-> RAS_length(info, views[v]), err |-> "", view |-> views[v]])

Flush == \E v \in LiveViews :
            ViewCall("flush", v, 0, [rc |-> RAS_flush(views[v]), err |-> "", view |-> views[v]])

Duplicate ==
    /\ FreeSlots # {}
    /\ \E v \in LiveViews :
         /\ views' = [views EXCEPT ![FirstFree] = RAS_duplicate(views[v])]
         /\ last' = [Last("duplicate", << >>, v, FirstFree, 1, "") EXCEPT
                       !.pos0 = views[v].curPos, !.io0 = views[v].iopos]
    /\ UNCHANGED <<arc, thr, pc, info, load>>

Destroy == \E v \in LiveViews :
            ViewCall("destroy", v, 0, [rc |-> 0, err |-> "", view |-> RAS_destroy(views[v])])

----------------------------------------------------------------------------
(* ras_find_entry statement by statement, for threads that share a handle *)

\* the other threads are all outside ras_find_entry
Alone(t) == \A u \in Threads \ {t} : thr[u].at = "idle"

\* thread t goes on to position at with the locals of c
Goes(t, c, at) == thr' = [thr EXCEPT ![t] = [c EXCEPT !.at = at, !.raced = @ \/ ~Alone(t)]]

\* a call with a path that is not the root: hashval = ras_hash_string(info, path)
FindBegin(t) ==
    /\ pc = "open" /\ thr[t].at = "idle"
    /\ \E path \in QueryPaths \ {<< >>} :
          Goes(t, [thr[t] EXCEPT !.path = path, !.hashval = ras_hash_string(info, path),
                                 !.prev = NULL, !.retval = NULL], "head")
    /\ UNCHANGED <<arc, pc, info, load, views, last>>

\* retval = info->hash[hashval]
FindHead(t) ==
    /\ thr[t].at = "head"
    /\ Goes(t, [thr[t] EXCEPT !.retval = info.hash[thr[t].hashval]], "test")
    /\ UNCHANGED <<arc, pc, info, load, views, last>>

\* the loop test and strcmp: leave with NOT_FOUND, leave with the head, go on
\* to the move to the front, or prev = retval; retval = retval->hashnext
FindTest(t) ==
    /\ thr[t].at = "test"
    /\ LET c == thr[t]
       IN  IF c.retval = NULL THEN Goes(t, c, "idle")
           ELSE IF info.heap[c.retval].name = c.path
           THEN Goes(t, c, IF c.prev # NULL THEN "unlink" ELSE "idle")
           ELSE Goes(t, [c EXCEPT !.prev = c.retval,
                                  !.retval = info.heap[c.retval].hashnext], "test")
    /\ UNCHANGED <<arc, pc, info, load, views, last>>

\* prev->hashnext = retval->hashnext
FindUnlink(t) ==
    /\ thr[t].at = "unlink"
    /\ info' = [info EXCEPT !.heap[thr[t].prev].hashnext = info.heap[thr[t].retval].hashnext]
    /\ Goes(t, thr[t], "relink")
    /\ UNCHANGED <<arc, pc, load, views, last>>

\* FindRelink leaving retval->hashnext as it is
FindRelink_skipped(t) ==
    /\ thr[t].at = "relink"
    /\ Goes(t, thr[t], "front")
    /\ UNCHANGED <<arc, pc, info, load, views, last>>

\* retval->hashnext = info->hash[hashval]
FindRelink(t) ==
    /\ thr[t].at = "relink"
    /\ info' = [info EXCEPT !.heap[thr[t].retval].hashnext = info.hash[thr[t].hashval]]
    /\ Goes(t, thr[t], "front")
    /\ UNCHANGED <<arc, pc, load, views, last>>

\* info->hash[hashval] = retval; return retval
FindFront(t) ==
    /\ thr[t].at = "front"
    /\ info' = [info EXCEPT !.hash[thr[t].hashval] = thr[t].retval]
    /\ Goes(t, thr[t], "idle")
    /\ UNCHANGED <<arc, pc, load, views, last>>

NextOpen == OpenArchive \/ LoadEntries

NextMem == OpenArchive \/ LoadEntriesMem

\* the lookups on a built index: a file is opened while no other view is open
NextIndex ==
    \/ OpenArchive \/ LoadEntries
    \/ Enumerate \/ Stat \/ (LiveViews = {} /\ OpenRead) \/ Destroy
    \/ CloseArchive

Next ==
    \/ OpenArchive \/ LoadEntries
    \/ Enumerate \/ Stat \/ OpenRead
    \/ OpenWrite \/ OpenAppend \/ Remove \/ Mkdir
    \/ CloseArchive
    \/ Read \/ Write \/ Seek \/ Tell \/ Length \/ Flush \/ Duplicate \/ Destroy

\* lookups by NumThreads threads on a built index, their statements interleaved
NextRace ==
    \/ OpenArchive \/ LoadEntries
    \/ \E t \in Threads :
          \/ FindBegin(t) \/ FindHead(t) \/ FindTest(t)
          \/ FindUnlink(t) \/ FindRelink(t) \/ FindFront(t)

Spec == Init /\ [][Next]_vars
SpecOpen == InitOpen /\ [][NextOpen]_vars
SpecMem == InitOpen /\ [][NextMem]_vars
SpecIndex == InitIndex /\ [][NextIndex]_vars
SpecCursor == InitOn(HugeArchives) /\ [][NextOpen]_vars
SpecCut == InitOn(CutArchives) /\ [][NextOpen]_vars
SpecRace == InitOn(RaceArchives) /\ [][NextRace]_vars

----------------------------------------------------------------------------
(* Properties of the read view *)

\* the entry a live view reads, its size N and its payload's place
ViewEntry(v) == info.heap[views[v].entry]
ViewSize(v) == ViewEntry(v).compressed_size
PayloadPresent(v) == ViewEntry(v).offset + ViewSize(v) <= arc.len

\* C1 as stated: for a view over an entry of size N >= 1, a read at position
\* N returns 0 bytes without an error, seek(N) fails PAST_EOF, and seek(N-1)
\* followed by a read of 1 byte returns exactly 1 byte.
C1_BoundedReads_Original ==
    last.op \in {"read", "seek"} /\ ViewSize(last.v) >= 1 =>
        /\ (last.op = "read" /\ last.pos0 = ViewSize(last.v)
                => last.rc = 0 /\ last.err = "")
        /\ (last.op = "seek" /\ last.arg = ViewSize(last.v)
                => last.rc = 0 /\ last.err = "PAST_EOF")
        /\ (last.op = "read" /\ last.arg = 1 /\ last.seek0 = ViewSize(last.v) - 1
                => last.rc = 1)

\* C1 as amended: the same, the last part for an entry whose payload the byte
\* source holds to its last byte (entry.offset + N <= the source's length).
C1_BoundedReads ==
    last.op \in {"read", "seek"} /\ ViewSize(last.v) >= 1 =>
        /\ (last.op = "read" /\ last.pos0 = ViewSize(last.v)
                => last.rc = 0 /\ last.err = "")
        /\ (last.op = "seek" /\ last.arg = ViewSize(last.v)
                => last.rc = 0 /\ last.err = "PAST_EOF")
        /\ (last.op = "read" /\ last.arg = 1 /\ last.seek0 = ViewSize(last.v) - 1
                /\ PayloadPresent(last.v)
                => last.rc = 1 /\ last.err = "")

\* a read of 1 byte right after seek(N-1) on an entry of 2 bytes delivered 1 byte
C1_Witness ==
    /\ last.op = "read" /\ last.arg = 1 /\ last.rc = 1
    /\ ViewSize(last.v) = 2 /\ last.seek0 = 1

\* C2: every view's logical position is within 0..N, and a read of length L
\* at position p returns at most min(L, N - p) bytes, none of them from an
\* archive offset of entry.offset + N or more.
C2_ReadsStayInBounds ==
    /\ \A v \in LiveViews : 0 <= RAS_tell(views[v]) /\ RAS_tell(views[v]) <= ViewSize(v)
    /\ last.op = "read" =>
          /\ 0 <= last.rc
          /\ last.rc <= Min(last.arg, ViewSize(last.v) - last.pos0)
          /\ last.io0 + last.rc <= ViewEntry(last.v).offset + ViewSize(last.v)

\* a read asked for more than was left and was given exactly what was left
C2_Witness ==
    /\ last.op = "read"
    /\ last.arg > ViewSize(last.v) - last.pos0
    /\ last.rc = ViewSize(last.v) - last.pos0
    /\ last.rc > 0

----------------------------------------------------------------------------
(* Properties of the archive operations *)

\* what the index holds, read off the heap without a lookup
Known(path) == path = << >> \/ \E e \in Hashed(info) : info.heap[e].name = path
IsDirectory(path) ==
    path = << >> \/ \E e \in Hashed(info) :
                      info.heap[e].name = path /\ info.heap[e].type = RAS_DIRECTORY

\* C3: openRead of an absent path fails NOT_FOUND, openRead of a directory
\* (the root too) fails NOT_A_FILE, stat of an absent path fails NOT_FOUND,
\* and a failed openRead leaves allocated exactly what was allocated before.
C3_KindGuard ==
    /\ last.op = "openRead" /\ ~Known(last.path)
          => last.rc = 0 /\ last.err = "NOT_FOUND"
    /\ last.op = "openRead" /\ IsDirectory(last.path)
          => last.rc = 0 /\ last.err = "NOT_A_FILE"
    /\ last.op = "stat" /\ ~Known(last.path)
          => last.rc = 0 /\ last.err = "NOT_FOUND"
    /\ last.op = "openRead" /\ last.rc = 0
          => Allocated(views) = last.arg
    /\ \A v \in 1..MaxViews :
          views[v].retval = views[v].finfo /\ views[v].finfo = views[v].io

\* openRead of the directory a has failed NOT_A_FILE while a view was open
C3_Witness ==
    /\ last.op = "openRead" /\ last.path = PathA /\ last.err = "NOT_A_FILE"
    /\ LiveViews # {}

\* C4: openWrite, openAppend, remove, mkdir, write on a view and opening for
\* writing fail READ_ONLY whatever the argument and the state, and change
\* neither the index nor any view.
C4_ReadOnly ==
    [][ (\/ last'.op \in {"openWrite", "openAppend", "remove", "mkdir", "write"}
         \/ (last'.op = "openArchive" /\ last'.arg = 1))
        => /\ last'.err = "READ_ONLY"
           /\ last'.rc \in {0, -1}
           /\ info' = info /\ views' = views /\ pc' = pc /\ load' = load ]_vars

\* a write on a view whose cursor had moved has failed READ_ONLY
C4_Witness ==
    /\ last.op = "write" /\ last.err = "READ_ONLY" /\ last.arg = 2
    /\ views[last.v].curPos = 1

----------------------------------------------------------------------------
(* Properties of the index RAS_openArchive builds *)

\* the path an entry is stored under for a decoded record: ras_load_entry
\* drops one trailing separator
Stored(name) ==
    IF name # << >> /\ name[Len(name)] = SLASH THEN SubSeq(name, 1, Len(name) - 1) ELSE name

EntriesAt(path) == { e \in Hashed(info) : info.heap[e].name = path }

\* the records of the decoded sequence whose full path is p
RecordsAt(p) == { k \in 1..Len(load.files) : load.files[k].name = p }
LastRecordAt(p) == CHOOSE k \in RecordsAt(p) : \A j \in RecordsAt(p) : j <= k

\* C5: when two or more file records share a full path (one that names a
\* file: not empty, no trailing separator), the built index holds exactly one
\* entry for it, with the offset and size of the last such record.
C5_LastWriteWins ==
    pc = "open" =>
        \A k \in 1..Len(load.files) :
            LET p == load.files[k].name
            IN  (p # << >> /\ p[Len(p)] # SLASH /\ Cardinality(RecordsAt(p)) >= 2) =>
                    /\ Cardinality(EntriesAt(p)) = 1
                    /\ \A e \in EntriesAt(p) :
                          /\ info.heap[e].offset = load.files[LastRecordAt(p)].offset
                          /\ info.heap[e].compressed_size = load.files[LastRecordAt(p)].size

\* C6: once a record's path was found in the hash table with the other kind,
\* archive open has failed with CORRUPT.
C6_KindConflictFails ==
    load.clash => pc = "failed" /\ last.err = "CORRUPT"

\* C7: when a file record's parent-directory index is >= dirCount, archive
\* open ends in failure with CORRUPT and no entry stays allocated.
C7_BadDirIndexFails ==
    (/\ pc \in {"open", "failed", "crashed"}
     /\ arc.sig = SigCode
     /\ \E k \in 1..Len(arc.files) : arc.files[k].dir >= arc.dircount)
    => pc = "failed" /\ last.err = "CORRUPT" /\ info.live = {}

\* a directory path and a basename joined by the caller of enumerate
Join(dir, name) == IF dir = << >> THEN name ELSE dir \o <<SLASH>> \o name

\* The paths a recursive enumeration visits below dir, given the basenames
\* enumerate yielded for it: each joined path, then what lies below it when it
\* stats as a directory. fuel bounds the depth by the number of entries.
RECURSIVE Walk(_, _, _, _)
Walk(I, dir, names, fuel) ==
    IF names = << >> \/ fuel = 0 THEN << >>
    ELSE LET p == Join(dir, Head(names))
             st == RAS_stat(I, p)
             below == IF st.rc = 1 /\ st.stat.filetype = "DIRECTORY"
                      THEN Walk(I, p, RAS_enumerateFiles(I, p).names, fuel - 1)
                      ELSE << >>
         IN  <<p>> \o below \o Walk(I, dir, Tail(names), fuel)

Visited == Walk(info, << >>, RAS_enumerateFiles(info, << >>).names, Len(info.heap))

\* C8: after a successful open, the recursive enumeration from the root
\* visits no path twice and visits the path of every decoded record.
C8_EnumerationComplete ==
    pc = "open" =>
        /\ \A i, j \in 1..Len(Visited) : Visited[i] = Visited[j] => i = j
        /\ \A k \in 1..Len(load.files) :
              Stored(load.files[k].name) # << >> =>
                  \E i \in 1..Len(Visited) : Visited[i] = Stored(load.files[k].name)

\* an archive of one directory record and one file record with parent index
\* 0, its signature accepted and its bytes all there
IsSingle(a) ==
    /\ Len(a.dirs) = 1 /\ a.dircount = 1 /\ Len(a.files) = 1 /\ a.files[1].dir = 0
    /\ a.sig = SigCode /\ a.len >= PayloadStart(a) + a.files[1].size

\* the normalized name of its directory record
DirName(a) == RAS_loadDirs(DirBlob(a), Len(DirBlob(a)), 1)[1].name

Simple(x) == x # << >> /\ \A i \in 1..Len(x) : x[i] # SLASH

\* what C9 says of the index for directory D, file name F and size S
ScenarioIndex(D, F, S) ==
    LET sd == RAS_stat(info, D)
        sf == RAS_stat(info, D \o <<SLASH>> \o F)
        ok(st) == /\ st.rc = 1 /\ st.stat.readonly = 1 /\ st.stat.modtime = 0
                  /\ st.stat.createtime = 0 /\ st.stat.accesstime = 0
    IN  /\ pc = "open"
        /\ { <<info.heap[e].name, info.heap[e].type>> : e \in Hashed(info) }
             = { <<D, RAS_DIRECTORY>>, <<D \o <<SLASH>> \o F, RAS_FILE>> }
        /\ RAS_enumerateFiles(info, D).names = <<F>>
        /\ ok(sf) /\ sf.stat.filetype = "REGULAR" /\ sf.stat.filesize = S
        /\ ok(sd) /\ sd.stat.filetype = "DIRECTORY" /\ sd.stat.filesize = 0

\* C9 as stated: for every D, F and S
C9_Scenario_Original ==
    (/\ pc \in {"open", "failed", "crashed"}
     /\ IsSingle(arc)
     /\ DirName(arc) # << >> /\ DirName(arc)[Len(DirName(arc))] = SLASH)
    => ScenarioIndex(Stored(DirName(arc)), arc.files[1].name, arc.files[1].size)

\* C9 as amended: for D and F that are not empty and hold no separator
C9_Scenario ==
    (/\ pc \in {"open", "failed", "crashed"}
     /\ IsSingle(arc)
     /\ DirName(arc) # << >> /\ DirName(arc)[Len(DirName(arc))] = SLASH
     /\ Simple(Stored(DirName(arc))) /\ Simple(arc.files[1].name))
    => ScenarioIndex(Stored(DirName(arc)), arc.files[1].name, arc.files[1].size)

\* the scenario itself: \data\ and item.bin of 10 bytes, opened
C9_Witness ==
    /\ pc = "open"
    /\ arc.dirs = <<DirData>> /\ Len(arc.files) = 1
    /\ arc.files[1].name = NameItem /\ arc.files[1].size = 10 /\ arc.files[1].dir = 0
    /\ RAS_stat(info, PathDataItem).stat.filesize = 10

\* C10: a source of four bytes or more is accepted past the signature
\* exactly when its first four bytes are "RAS " with a space, and otherwise
\* fails UNSUPPORTED with no index state built.
C10_Signature ==
    (last.op = "openArchive" /\ last.arg = 0 /\ arc.len >= 4) =>
        IF arc.sig = SigDoc
        THEN last.err # "UNSUPPORTED"
        ELSE /\ pc = "failed" /\ last.err = "UNSUPPORTED"
             /\ ~info.alloc /\ ~info.hashAlloc /\ info.live = {}

----------------------------------------------------------------------------
(* Properties of several views at once *)

\* C11: read, seek and duplicate on one view change neither the logical
\* position nor the byte-source position of any other view, nor the position
\* of the archive handle's own byte source, however the calls interleave.
C11_ViewsIndependent ==
    [][ last'.op \in {"read", "seek", "duplicate"}
        => /\ \A u \in 1..MaxViews :
                 (u # last'.v /\ views[u].retval) => views'[u] = views[u]
           /\ info'.iopos = info.iopos /\ info'.io = info.io ]_vars

\* a read has moved one view of an entry while another view of the same entry
\* stays where it was, at another position
C11_Witness ==
    /\ last.op = "read" /\ last.rc > 0
    /\ \E u \in LiveViews :
          /\ u # last.v
          /\ views[u].entry = views[last.v].entry
          /\ views[u].curPos # views[last.v].curPos
          /\ views[u].curPos > 0

----------------------------------------------------------------------------
(* Properties of a failed and of a closed index *)

\* C12: when index construction has failed part-way, for a file among the
\* ancestors of a path or for want of memory, every entry allocated for the
\* archive has been released exactly once and the open has returned the error
\* with no entry reachable.
C12_FailureReleasesAll ==
    (load.i >= 1 /\ last.err \in {"CORRUPT", "OUT_OF_MEMORY"}) =>
        /\ pc = "failed"
        /\ info.live = {} /\ ~info.dbl
        /\ info.freed = 2..Len(info.heap)
        /\ ~info.hashAlloc /\ ~info.alloc

\* C13: once a built archive is closed, after whatever lookups, every entry
\* ever allocated for it has been released exactly once, the root embedded in
\* RASinfo was never released as an entry, and the archive's byte source has
\* been destroyed.
C13_CloseReleasesAll ==
    pc = "closed_archive" =>
        /\ info.live = {} /\ ~info.dbl
        /\ info.freed = 2..Len(info.heap)
        /\ ROOT \notin info.freed
        /\ info.io = "destroyed"
        /\ ~info.hashAlloc /\ ~info.alloc /\ info.bufs = {}

\* an archive of three entries or more was closed after a lookup had moved an
\* entry to the front of a chain of three
C13_Witness ==
    /\ pc = "closed_archive" /\ last.op = "closeArchive"
    /\ Cardinality(info.freed) >= 3
    /\ \E b \in 1..Len(info.hash) :
          LET e1 == info.hash[b]
              e2 == IF e1 = NULL THEN NULL ELSE info.heap[e1].hashnext
              e3 == IF e2 = NULL THEN NULL ELSE info.heap[e2].hashnext
          IN  e3 # NULL /\ e1 < e2

----------------------------------------------------------------------------
(* Properties of the stream cipher *)

\* the three encrypted blocks of the archive being opened
EncBlocks == <<EncHeader(arc), EncFiles(arc), EncDirs(arc)>>

\* C14: each of the three blocks RAS_openArchive has decrypted is what
\* ras_decrypt makes of that block's bytes, its length and the seed read from
\* the archive, whatever was decrypted before it (so it is the block the
\* archive was written from); and once RAS_openArchive has been called, every
\* block of the archive decrypts with seed 0 to what it decrypts to with seed 1.
C14_Cipher ==
    (last.op = "openArchive" /\ load.i = 0) =>
        \A enc \in {EncBlocks} : \A k \in 1..3 :
            /\ ras_decrypt(enc[k], Len(enc[k]), 0) = ras_decrypt(enc[k], Len(enc[k]), 1)
            /\ load.blocks # << >> =>
                  /\ load.blocks[k] = ras_decrypt(enc[k], Len(enc[k]), arc.seed)
                  /\ load.blocks = <<HeaderBytes(arc), FileBlob(arc), DirBlob(arc)>>

\* an archive written with seed 0 has been decrypted and its records decoded
C14_Witness ==
    /\ load.blocks # << >> /\ arc.seed = 0 /\ pc = "loading"
    /\ Len(load.files) = 1 /\ load.files[1].name = PathDataItem
----------------------------------------------------------------------------
(* Properties of the index: the hash table and the tree *)

\* the entries met from cur on along hashnext, fuel of them at most
RECURSIVE ChainFrom(_, _, _)
ChainFrom(heap, cur, fuel) ==
    IF cur = NULL \/ fuel = 0 THEN << >>
    ELSE <<cur>> \o ChainFrom(heap, heap[cur].hashnext, fuel - 1)

\* the chain of bucket b; a chain that loops comes out longer than the heap
Chain(I, b) == ChainFrom(I.heap, I.hash[b], Len(I.heap) + 1)

\* the chains of all buckets, first to last
Chains(I) == << >> \o [b \in 1..Len(I.hash) |-> Chain(I, b)]

\* the places <<bucket, position>> at which entry e stands in chains cs
Places(cs, e) ==
    { bk \in (1..Len(cs)) \X (1..Max(1, Len(Concat(cs)))) :
        bk[2] <= Len(cs[bk[1]]) /\ cs[bk[1]][bk[2]] = e }

HashOK(I) ==
    \A cs \in {Chains(I)} :
        /\ \A e \in Hashed(I) :
              /\ Cardinality(Places(cs, e)) = 1
              /\ \A bk \in Places(cs, e) : bk[1] = ras_hash_string(I, I.heap[e].name)
        /\ \A b \in 1..Len(cs) : \A k \in 1..Len(cs[b]) : cs[b][k] \in Hashed(I)
        /\ \A e1, e2 \in Hashed(I) : e1 # e2 => I.heap[e1].name # I.heap[e2].name

\* C15: while the index is being built, after each record, and once it is
\* built, after each lookup whether it hit or missed, every allocated entry
\* other than the root stands in exactly one bucket chain, once, that bucket is
\* the one ras_hash_string gives for its path, the chains hold nothing else,
\* and no two entries have the same path.
C15_HashTable ==
    (pc \in {"loading", "open"} /\ info.hashAlloc) => HashOK(info)

\* a built index of two buckets, both in use, one holding a chain of two or
\* more whose head a lookup has just moved to the front
C15_Witness ==
    /\ pc = "open" /\ last.op = "stat" /\ last.rc = 1
    /\ Len(info.hash) = 2
    /\ Len(Chain(info, 1)) >= 1 /\ Len(Chain(info, 2)) >= 1
    /\ \E b \in 1..2 :
          /\ Len(Chain(info, b)) >= 2
          /\ Chain(info, b)[1] < Chain(info, b)[2]
          /\ info.heap[Chain(info, b)[1]].name = last.path
\* the entries met from cur on along sibling, fuel of them at most
RECURSIVE SiblingsFrom(_, _, _)
SiblingsFrom(heap, cur, fuel) ==
    IF cur = NULL \/ fuel = 0 THEN << >>
    ELSE <<cur>> \o SiblingsFrom(heap, heap[cur].sibling, fuel - 1)

\* the children list of entry p
ChildrenOf(I, p) == SiblingsFrom(I.heap, I.heap[p].children, Len(I.heap) + 1)

\* the path of the directory a path lies in
ParentPath(name) == SubSeq(name, 1, strrchr_sep(name) - 1)

\* the places <<parent, position>> at which entry e stands in a children list
ChildPlaces(I, e) ==
    { pk \in ({ROOT} \cup Hashed(I)) \X (1..(Len(I.heap) + 1)) :
        pk[2] <= Len(ChildrenOf(I, pk[1])) /\ ChildrenOf(I, pk[1])[pk[2]] = e }

TreeOK(I) ==
    \A e \in Hashed(I) :
        /\ Cardinality(ChildPlaces(I, e)) = 1
        /\ \A pk \in ChildPlaces(I, e) :
              /\ I.heap[pk[1]].type = RAS_DIRECTORY
              /\ IF strrchr_sep(I.heap[e].name) = 0 THEN pk[1] = ROOT
                 ELSE I.heap[pk[1]].name = ParentPath(I.heap[e].name)

\* every ancestor of entry e is there and is a directory
AncestorsExist(I, e) ==
    \A k \in 1..Len(I.heap[e].name) :
        I.heap[e].name[k] = SLASH =>
            \E d \in {ROOT} \cup Hashed(I) :
                /\ I.heap[d].name = SubSeq(I.heap[e].name, 1, k - 1)
                /\ I.heap[d].type = RAS_DIRECTORY

\* C16: after each pass of ras_load_entries that leaves the index standing,
\* every entry other than the root is in the children list of exactly one
\* entry, once, that entry is a directory and its path is the child's path up
\* to its last separator (the root when there is none); every ancestor of
\* every entry is in the index; and the entries the pass added besides the
\* record's own are directories of offset and sizes 0.
C16_Tree ==
    [][ (pc = "loading" /\ pc' \in {"loading", "open"}) =>
          /\ TreeOK(info')
          /\ \A e \in Hashed(info') : AncestorsExist(info', e)
          /\ \A e \in Hashed(info') \ Hashed(info) :
                info'.heap[e].name # Stored(load.files[load.i + 1].name) =>
                    /\ info'.heap[e].type = RAS_DIRECTORY
                    /\ info'.heap[e].offset = 0
                    /\ info'.heap[e].compressed_size = 0
                    /\ info'.heap[e].uncompressed_size = 0 ]_vars

\* a record two directories deep has been inserted, and both directories were
\* made for it
C16_Witness ==
    /\ pc \in {"loading", "open"} /\ last.op = "openArchive"
    /\ \E e \in Hashed(info) : \E d1, d2 \in Hashed(info) :
          /\ info.heap[e].type = RAS_FILE
          /\ d1 > e /\ d2 > d1
          /\ info.heap[d1].name = ParentPath(info.heap[e].name)
          /\ info.heap[d2].name = ParentPath(info.heap[d1].name)
          /\ info.heap[d2].name # << >>
          /\ info.heap[d1].type = RAS_DIRECTORY /\ info.heap[d1].compressed_size = 0
          /\ info.heap[d2].type = RAS_DIRECTORY /\ info.heap[d2].compressed_size = 0
----------------------------------------------------------------------------
(* Properties of a lookup *)

\* seq without the entry e
Without(seq, e) == SelectSeq(seq, LAMBDA x : x # e)

\* entry x without its place in a chain and, when sized is FALSE, its offset
\* and sizes
Rest(x, sized) ==
    IF sized THEN [x EXCEPT !.hashnext = NULL]
    ELSE [x EXCEPT !.hashnext = NULL, !.offset = 0, !.compressed_size = 0,
                   !.uncompressed_size = 0]

\* what a lookup of path that hits makes of the index I: J
Promoted(I, J, path, sized) ==
    /\ Len(J.hash) = Len(I.hash)
    /\ \A b \in 1..Len(I.hash) :
          IF b = ras_hash_string(I, path)
          THEN \E e \in Hashed(I) :
                  /\ I.heap[e].name = path
                  /\ Chain(J, b) = <<e>> \o Without(Chain(I, b), e)
          ELSE Chain(J, b) = Chain(I, b)
    /\ \A x \in 1..Len(I.heap) : Rest(J.heap[x], sized) = Rest(I.heap[x], sized)

LookupOps == {"enumerate", "stat", "openRead"}

\* C17: a call of enumerate, stat or openRead for a path other than the root
\* that is in the index leaves its entry at the head of its chain, the other
\* entries of the chain behind it in the order they had, every other chain as
\* it was, and every entry's kind, offset, sizes, children and sibling as they
\* were; for a path not in the index the entries and the table stay as they
\* were. The lookup ras_load_entries makes for a record whose path is in the
\* index does the same to the chains, kinds and tree links.
C17_MoveToFront ==
    [][ /\ (last'.op \in LookupOps /\ last'.path # << >>) =>
              IF \E e \in Hashed(info) : info.heap[e].name = last'.path
              THEN Promoted(info, info', last'.path, TRUE) /\ Len(info'.heap) = Len(info.heap)
              ELSE info'.heap = info.heap /\ info'.hash = info.hash
        /\ (/\ pc = "loading" /\ pc' \in {"loading", "open"}
            /\ \E e \in Hashed(info) :
                  info.heap[e].name = Stored(load.files[load.i + 1].name)) =>
              Promoted(info, info', Stored(load.files[load.i + 1].name), FALSE) ]_vars

\* a stat has brought an entry to the head of a chain of three or more in which
\* an earlier lookup of another path had changed the order
C17_Witness ==
    /\ pc = "open" /\ last.op = "stat" /\ last.rc = 1
    /\ \E b \in 1..Len(info.hash) : \E c \in {Chain(info, b)} :
          /\ Len(c) >= 3
          /\ info.heap[c[1]].name = last.path
          /\ c[2] < c[3]
----------------------------------------------------------------------------
(* Lookups by threads that share a handle *)

AllIdle == \A t \in Threads : thr[t].at = "idle"

\* C18: between calls, the chains of a built index hold what they held (every
\* entry once, in its bucket) unless a step of one lookup was taken while
\* another lookup was under way; and with such steps a state is reached in
\* which they do not (C18_Witness).
C18_OnlyRacesBreak ==
    (pc = "open" /\ AllIdle /\ ~HashOK(info)) => \E t \in Threads : thr[t].raced

\* two lookups have overlapped and returned, and an entry is out of reach from
\* its bucket or a chain runs in a circle
C18_Witness ==
    /\ pc = "open" /\ AllIdle
    /\ \E t, u \in Threads : t # u /\ thr[t].raced /\ thr[u].raced
    /\ \E cs \in {Chains(info)} :
          \/ \E e \in Hashed(info) : Places(cs, e) = {}
          \/ \E b \in 1..Len(cs) : Len(cs[b]) > Len(info.heap)
----------------------------------------------------------------------------
(* The payload offsets RAS_loadFiles assigns *)

\* the low and the high 16 bits of a PHYSFS_uint32
Lo16(x) == x % 65536
Hi16(x) == (x \div 65536) % 65536

\* the sums of the low and of the high halves of the sizes of records 1..k
RECURSIVE SumLo(_, _)
SumLo(fs, k) == IF k = 0 THEN 0 ELSE Lo16(fs[k].size) + SumLo(fs, k - 1)
RECURSIVE SumHi(_, _)
SumHi(fs, k) == IF k = 0 THEN 0 ELSE Hi16(fs[k].size) + SumHi(fs, k - 1)

\* 44 + fileinfolen + dirinfolen + the sizes of records 1..k, in units of
\* 65536 and a rest below 65536
EndLo(a, k) == PayloadStart(a) + SumLo(a.files, k)
EndHi(a, k) == SumHi(a.files, k) + (EndLo(a, k) \div 65536)

\* that sum modulo 2^32, as a PHYSFS_uint32
CursorAfter(a, k) ==
    LET hi == EndHi(a, k) % 65536
    IN  (IF hi >= 32768 THEN hi - 65536 ELSE hi) * 65536 + (EndLo(a, k) % 65536)

\* the sum is below 2^32
FitsU32(a, k) == EndHi(a, k) < 65536

\* C19: the k-th file record decoded, whatever its path and kind, has for
\* offset 44 + fileinfolen + dirinfolen + the declared sizes of the records
\* before it, modulo 2^32; and as long as that sum with the record's own size
\* stays below 2^32, the record's range ends where the next one begins.
C19_RunningCursor ==
    (load.files # << >> /\ Len(load.files) = Len(arc.files)) =>
        \A k \in 1..Len(load.files) :
            /\ load.files[k].size = arc.files[k].size
            /\ load.files[k].offset = CursorAfter(arc, k - 1)
            /\ (k < Len(load.files) /\ FitsU32(arc, k)) =>
                  /\ ~ULess(load.files[k + 1].offset, load.files[k].offset)
                  /\ Lo16(load.files[k + 1].offset) =
                        (Lo16(load.files[k].offset) + Lo16(load.files[k].size)) % 65536
                  /\ Hi16(load.files[k + 1].offset) =
                        Hi16(load.files[k].offset) + Hi16(load.files[k].size)
                        + ((Lo16(load.files[k].offset) + Lo16(load.files[k].size)) \div 65536)

\* three records decoded, the second of the path of the first, the third a
\* directory marker, the cursor past 2^31 at the second and wrapped at the third
C19_Witness ==
    /\ pc \in {"loading", "open"} /\ Len(load.files) = 3
    /\ load.files[2].name = load.files[1].name
    /\ load.files[3].name[Len(load.files[3].name)] = SLASH
    /\ load.files[2].offset < 0
    /\ load.files[3].offset >= 0
    /\ ULess(load.files[3].offset, load.files[2].offset)
----------------------------------------------------------------------------
(* The paths the index stores *)

\* C20: no entry of the index other than the root has a path that is empty or
\* that ends with a separator.
C20_StoredPaths ==
    (pc \in {"loading", "open"} /\ info.hashAlloc) =>
        \A e \in Hashed(info) :
            /\ info.heap[e].name # << >>
            /\ info.heap[e].name[Len(info.heap[e].name)] # SLASH
----------------------------------------------------------------------------
(* Blocks shorter than the records the header counts *)

\* C21: when the files block or the directories block lacks bytes of the
\* records the header counts, RAS_openArchive for reading ends in failure with
\* PHYSFS_ERR_CORRUPT (so it neither faults on a read past the block nor
\* builds an index).
C21_ShortBlocksFail ==
    (/\ arc.filecut + arc.dircut > 0
     /\ last.op = "openArchive" /\ last.arg = 0
     /\ pc # "loading") =>
        pc = "failed" /\ last.err = "CORRUPT"
----------------------------------------------------------------------------
(* The two cursors of a view *)

\* C22: the byte source of every view stands at entry.offset plus the view's
\* logical position, whether the view came from RAS_openRead or from
\* RAS_duplicate; so every read that delivers bytes delivers those at
\* entry.offset plus the position the view had.
C22_CursorCoherence ==
    /\ \A v \in LiveViews : views[v].iopos = ViewEntry(v).offset + views[v].curPos
    /\ (last.op = "read" /\ last.rc > 0) =>
          last.io0 = ViewEntry(last.v).offset + last.pos0
====
